---- MODULE Spec2Model ----
(***************************************************************************)
(* RushTI (src/RushTI.py): a task file is read, split into blocks on       *)
(* 'wait' lines, and each block is run on a ThreadPoolExecutor; the driver *)
(* awaits every future of a block before it opens the next one.            *)
(*                                                                         *)
(* Text is modelled as sequences of one-character strings, so lower(),     *)
(* strip(), shlex.split() and split("=") are computed character by         *)
(* character.  The alphabet has no backslash, no single quote and no '#'.  *)
(***************************************************************************)
EXTENDS Naturals, Sequences, FiniteSets

(***************************************************************************)
(* Bounds of the model.                                                    *)
(***************************************************************************)
MaxLines == 3
MaxWorkers == 2

(***************************************************************************)
(* str.lower(), str.strip(), str.strip(chars)                              *)
(***************************************************************************)
UpperToLower ==
    [A |-> "a", B |-> "b", C |-> "c", D |-> "d", E |-> "e", F |-> "f",
     G |-> "g", H |-> "h", I |-> "i", J |-> "j", K |-> "k", L |-> "l",
     M |-> "m", N |-> "n", O |-> "o", P |-> "p", Q |-> "q", R |-> "r",
     S |-> "s", T |-> "t", U |-> "u", V |-> "v", W |-> "w", X |-> "x",
     Y |-> "y", Z |-> "z"]

Whitespace == {" ", "\t", "\n", "\r"}

Digits == {"0", "1", "2", "3", "4", "5", "6", "7", "8", "9"}

LowerChar(c) == IF c \in DOMAIN UpperToLower THEN UpperToLower[c] ELSE c

Lower(s) == [i \in 1..Len(s) |-> LowerChar(s[i])]

RECURSIVE LStrip(_, _)
LStrip(s, chars) ==
    IF s # <<>> /\ Head(s) \in chars THEN LStrip(Tail(s), chars) ELSE s

RECURSIVE RStrip(_, _)
RStrip(s, chars) ==
    IF s # <<>> /\ s[Len(s)] \in chars
    THEN RStrip(SubSeq(s, 1, Len(s) - 1), chars)
    ELSE s

StripChars(s, chars) == RStrip(LStrip(s, chars), chars)

Strip(s) == StripChars(s, Whitespace)

(***************************************************************************)
(* shlex.split(line): POSIX rules, split on whitespace only.  st is the    *)
(* lexer state: "none" between tokens, "word" inside a token, "quote"      *)
(* inside double quotes.  An unclosed quote raises ValueError.             *)
(***************************************************************************)
RECURSIVE ShlexScan(_, _, _, _)
ShlexScan(rest, st, cur, toks) ==
    IF rest = <<>>
    THEN CASE st = "none"  -> [raised |-> FALSE, tokens |-> toks]
           [] st = "word"  -> [raised |-> FALSE, tokens |-> Append(toks, cur)]
           [] st = "quote" -> [raised |-> TRUE, tokens |-> <<>>]
    ELSE LET c == Head(rest)
             r == Tail(rest)
         IN  CASE st = "none" /\ c \in Whitespace -> ShlexScan(r, "none", <<>>, toks)
               [] st = "none" /\ c = "\""  -> ShlexScan(r, "quote", <<>>, toks)
               [] st = "none" /\ c \notin Whitespace /\ c # "\"" ->
                      ShlexScan(r, "word", <<c>>, toks)
               [] st = "word" /\ c \in Whitespace ->
                      ShlexScan(r, "none", <<>>, Append(toks, cur))
               [] st = "word" /\ c = "\""  -> ShlexScan(r, "quote", cur, toks)
               [] st = "word" /\ c \notin Whitespace /\ c # "\"" ->
                      ShlexScan(r, "word", Append(cur, c), toks)
               [] st = "quote" /\ c = "\"" -> ShlexScan(r, "word", cur, toks)
               [] st = "quote" /\ c # "\"" -> ShlexScan(r, "quote", Append(cur, c), toks)

ShlexSplit(line) == ShlexScan(line, "none", <<>>, <<>>)

(***************************************************************************)
(* pair.split("="): the pieces between the '=' signs (always at least one) *)
(***************************************************************************)
RECURSIVE SplitScan(_, _, _, _)
SplitScan(rest, sep, cur, parts) ==
    IF rest = <<>> THEN Append(parts, cur)
    ELSE IF Head(rest) = sep
         THEN SplitScan(Tail(rest), sep, <<>>, Append(parts, cur))
         ELSE SplitScan(Tail(rest), sep, Append(cur, Head(rest)), parts)

SplitOn(s, sep) == SplitScan(s, sep, <<>>, <<>>)

(***************************************************************************)
(* extract_info_from_line.  parameters is a dict: a function from keys to  *)
(* values, a later pair overwriting an earlier one with the same key.      *)
(* raised is TRUE when the code raises: shlex's ValueError, the ValueError *)
(* of unpacking a split that has not exactly two pieces, or the KeyError   *)
(* of popping a missing "instance" or "process".                           *)
(***************************************************************************)
KeyInstance == <<"i", "n", "s", "t", "a", "n", "c", "e">>
KeyProcess == <<"p", "r", "o", "c", "e", "s", "s">>

DictSet(d, k, v) == [x \in (DOMAIN d) \cup {k} |-> IF x = k THEN v ELSE d[x]]

DictPop(d, k) == [x \in (DOMAIN d) \ {k} |-> d[x]]

EmptyDict == [x \in {} |-> <<>>]

ParseFailed == [raised |-> TRUE, instance_name |-> <<>>, process_name |-> <<>>,
                parameters |-> EmptyDict]

\* every key is lower-cased, not only instance and process
RECURSIVE CollectPairsLowerAll(_, _)
CollectPairsLowerAll(pairs, parameters) ==
    IF pairs = <<>> THEN [raised |-> FALSE, parameters |-> parameters]
    ELSE LET parts == SplitOn(Head(pairs), "=")
         IN  IF Len(parts) # 2
             THEN [raised |-> TRUE, parameters |-> parameters]
             ELSE CollectPairsLowerAll(Tail(pairs),
                      DictSet(parameters, Lower(parts[1]),
                              Strip(StripChars(parts[2], {"\""}))))

RECURSIVE CollectPairs(_, _)
CollectPairs(pairs, parameters) ==
    IF pairs = <<>> THEN [raised |-> FALSE, parameters |-> parameters]
    ELSE LET parts == SplitOn(Head(pairs), "=")
         IN  IF Len(parts) # 2
             THEN [raised |-> TRUE, parameters |-> parameters]
             ELSE LET param == parts[1]
                      value == Strip(StripChars(parts[2], {"\""}))
                      key == IF Lower(param) = KeyProcess \/ Lower(param) = KeyInstance
                             THEN Lower(param)
                             ELSE param
                  IN  CollectPairs(Tail(pairs), DictSet(parameters, key, value))

extract_info_from_line(line) ==
    LET lexed == ShlexSplit(line)
    IN  IF lexed.raised THEN ParseFailed
        ELSE LET got == CollectPairs(lexed.tokens, EmptyDict)
             IN  IF got.raised THEN ParseFailed
                 ELSE IF KeyInstance \notin DOMAIN got.parameters THEN ParseFailed
                 ELSE IF KeyProcess \notin DOMAIN got.parameters THEN ParseFailed
                 ELSE [raised |-> FALSE,
                       instance_name |-> got.parameters[KeyInstance],
                       process_name |-> got.parameters[KeyProcess],
                       parameters |-> DictPop(DictPop(got.parameters, KeyInstance),
                                              KeyProcess)]

(***************************************************************************)
(* The task file.  A file is a sequence of at most MaxLines lines, each    *)
(* one of these texts (as readlines() returns them, newline included).     *)
(***************************************************************************)
\* 'wait\n'
LineWait == <<"w", "a", "i", "t", "\n">>
\* ' WaIt \n'
LineWaitMixed == <<" ", "W", "a", "I", "t", " ", "\n">>
\* ' \n'
LineBlank == <<" ", "\n">>
\* 'instance="A" process="P" pX=1\n'
LineTaskA == <<"i", "n", "s", "t", "a", "n", "c", "e", "=", "\"", "A", "\"", " ", "p", "r", "o", "c", "e", "s", "s", "=", "\"", "P", "\"", " ", "p", "X", "=", "1", "\n">>
\* 'INSTANCE=B Process="Q R"\n'
LineTaskB == <<"I", "N", "S", "T", "A", "N", "C", "E", "=", "B", " ", "P", "r", "o", "c", "e", "s", "s", "=", "\"", "Q", " ", "R", "\"", "\n">>
\* 'wait x\n'
LineNoEquals == <<"w", "a", "i", "t", " ", "x", "\n">>
\* 'process="P"\n'
LineNoInstance == <<"p", "r", "o", "c", "e", "s", "s", "=", "\"", "P", "\"", "\n">>

TaskFileLines == {LineWait, LineWaitMixed, LineBlank, LineTaskA, LineTaskB,
                  LineNoEquals, LineNoInstance}

\* What each text of the file is, read off the texts themselves: the
\* properties below are stated against these, not against the parser.
BarrierTexts == {LineWait, LineWaitMixed}
BlankTexts == {LineBlank}
TaskTexts == {LineTaskA, LineTaskB}
MalformedTexts == {LineNoEquals, LineNoInstance}
TargetOf(line) == IF line = LineTaskA THEN <<"A">> ELSE <<"B">>

\* extract_info_from_line of each text, computed once (the function is pure)
ParsedLine == [line \in TaskFileLines |-> extract_info_from_line(line)]

TaskFiles == UNION {[1..k -> TaskFileLines] : k \in 0..MaxLines}

(***************************************************************************)
(* The surroundings: the files that exist, the sections of config.ini and  *)
(* the command lines the program is started with.                          *)
(***************************************************************************)
ExistingFiles == {"tasks.txt"}

ConfigSections == {<<"A">>, <<"B">>}

DigitChar == <<"1", "2", "3", "4", "5", "6", "7", "8", "9">>

WorkerArguments == {<<"0">>, <<"x">>} \cup {<<DigitChar[n]>> : n \in 1..MaxWorkers}

CommandLines ==
    {<<"RushTI.py">>, <<"RushTI.py", "missing.txt", <<"1">>>>}
    \cup {<<"RushTI.py", "tasks.txt", w>> : w \in WorkerArguments}

\* str.isdigit()
IsDigit(s) == s # <<>> /\ \A i \in 1..Len(s) : s[i] \in Digits

DigitValue(c) == CHOOSE n \in 0..9 : (IF n = 0 THEN "0" ELSE DigitChar[n]) = c

\* int(s) of a string of digits
RECURSIVE Int(_)
Int(s) == IF s = <<>> THEN 0
          ELSE 10 * Int(SubSeq(s, 1, Len(s) - 1)) + DigitValue(s[Len(s)])

(***************************************************************************)
(* work_through_tasks, line 141: itertools.groupby on the key              *)
(* z.lower().strip() == 'wait', keeping the groups whose key is False.     *)
(* Lines are named by their position in the file, so that two equal lines  *)
(* stay two tasks.                                                         *)
(***************************************************************************)
Wait == <<"w", "a", "i", "t">>

\* the comparison without lower(): only the exact spelling 'wait' is a barrier
IsWaitCaseSensitive(z) == Strip(z) = Wait

IsWait(z) == Strip(Lower(z)) = Wait

RECURSIVE GroupBy(_, _, _)
GroupBy(ls, i, groups) ==
    IF i > Len(ls) THEN groups
    ELSE LET x == IsWait(ls[i])
             n == Len(groups)
         IN  IF n > 0 /\ groups[n].key = x
             THEN GroupBy(ls, i + 1,
                          [groups EXCEPT ![n].items = Append(@, i)])
             ELSE GroupBy(ls, i + 1, Append(groups, [key |-> x, items |-> <<i>>]))

\* the filter without its "not": the groups of barrier lines are kept
KeyItself(g) == g.key

NotKey(g) == ~g.key

\* a split in the manner of str.split: one block per barrier, empty or not
RECURSIVE SplitAtEveryWait(_, _, _)
SplitAtEveryWait(ls, i, blocks) ==
    IF i > Len(ls) THEN blocks
    ELSE IF IsWait(ls[i])
         THEN SplitAtEveryWait(ls, i + 1, Append(blocks, <<>>))
         ELSE SplitAtEveryWait(ls, i + 1,
                  [blocks EXCEPT ![Len(blocks)] = Append(@, i)])

SplitLikeStrSplit(ls) == SplitAtEveryWait(ls, 1, <<<<>>>>)

SplitLines(ls) ==
    LET kept == SelectSeq(GroupBy(ls, 1, <<>>), NotKey)
    IN  [b \in 1..Len(kept) |-> kept[b].items]

(***************************************************************************)
(* State.                                                                  *)
(*   pc            where the main program is                               *)
(*   argv          sys.argv                                                *)
(*   max_workers   the second argument, as translate_cmd_arguments returns *)
(*   tm1_services  the dict of setup_tm1_services: name -> session state   *)
(*   lines         file.readlines()                                        *)
(*   line_sets     the blocks of line 141 (positions in lines)             *)
(*   batch         the block the for loop of line 143 is at                *)
(*   awaiting      the future the for loop of line 148 is at               *)
(*   exception     an exception is propagating out of work_through_tasks   *)
(*   joined        the blocks whose executor has been shut down            *)
(*   fut           per line: pending, queued (submitted), calling (inside  *)
(*                 tm1.processes.execute), or how execute_line ended       *)
(*   log           per line: the levels of the log records it wrote        *)
(*   calls         per line: the remote calls it issued                    *)
(***************************************************************************)
VARIABLES pc, argv, max_workers, tm1_services, lines, line_sets, batch,
          awaiting, exception, joined, fut, log, calls

vars == <<pc, argv, max_workers, tm1_services, lines, line_sets, batch,
          awaiting, exception, joined, fut, log, calls>>

Finished == {"succeeded", "failed", "skipped", "blank", "raised"}

Init ==
    /\ pc = "args"
    /\ argv \in CommandLines
    /\ max_workers = <<>>
    /\ tm1_services = EmptyDict
    /\ lines = <<>>
    /\ line_sets = <<>>
    /\ batch = 0
    /\ awaiting = 0
    /\ exception = FALSE
    /\ joined = {}
    /\ fut = <<>>
    /\ log = <<>>
    /\ calls = <<>>

(***************************************************************************)
(* translate_cmd_arguments: any failed check raises ValueError, which      *)
(* ends the program before setup_tm1_services.                             *)
(***************************************************************************)
\* the checks without os.path.isfile
ArgumentsValidNoFileCheck(args) ==
    /\ ~(Len(args) < 3)
    /\ IsDigit(args[3])

ArgumentsValid(args) ==
    /\ ~(Len(args) < 3)
    /\ args[2] \in ExistingFiles
    /\ IsDigit(args[3])

TranslateCmdArguments ==
    /\ pc = "args"
    /\ IF ArgumentsValid(argv)
       THEN /\ max_workers' = argv[3]
            /\ pc' = "setup"
       ELSE /\ pc' = "fatal"
            /\ UNCHANGED max_workers
    /\ UNCHANGED <<argv, tm1_services, lines, line_sets, batch, awaiting,
                   exception, joined, fut, log, calls>>

(***************************************************************************)
(* setup_tm1_services: every section of config.ini whose TM1Service        *)
(* constructor does not raise becomes an entry of the dict.                *)
(***************************************************************************)
SetupTm1Services ==
    /\ pc = "setup"
    /\ \E accessible \in SUBSET ConfigSections :
          tm1_services' = [name \in accessible |-> "connected"]
    /\ pc' = "work"
    /\ UNCHANGED <<argv, max_workers, lines, line_sets, batch, awaiting,
                   exception, joined, fut, log, calls>>

(***************************************************************************)
(* work_through_tasks, lines 136-141: read the file, split it.             *)
(***************************************************************************)
ReadAndSplit ==
    /\ pc = "work"
    /\ \E ls \in TaskFiles :
          /\ lines' = ls
          /\ line_sets' = SplitLines(ls)
          /\ fut' = [i \in 1..Len(ls) |-> "pending"]
          /\ log' = [i \in 1..Len(ls) |-> <<>>]
          /\ calls' = [i \in 1..Len(ls) |-> <<>>]
    /\ batch' = 1
    /\ pc' = "loop"
    /\ UNCHANGED <<argv, max_workers, tm1_services, awaiting, exception, joined>>

(***************************************************************************)
(* Lines 143-147: ThreadPoolExecutor(max_workers=int(max_workers)) raises  *)
(* ValueError for 0; otherwise every line of the block is submitted.       *)
(***************************************************************************)
InBatch(b) == {line_sets[b][k] : k \in 1..Len(line_sets[b])}

\* a pool that accepts max_workers=0: the lines are submitted all the same
EnterBatchUnchecked ==
    /\ pc = "loop"
    /\ batch <= Len(line_sets)
    /\ fut' = [i \in 1..Len(lines) |->
                  IF i \in InBatch(batch) THEN "queued" ELSE fut[i]]
    /\ awaiting' = 1
    /\ pc' = "await"
    /\ UNCHANGED <<argv, max_workers, tm1_services, lines, line_sets, batch,
                   exception, joined, log, calls>>

EnterBatch ==
    /\ pc = "loop"
    /\ batch <= Len(line_sets)
    /\ IF Int(max_workers) = 0
       THEN /\ exception' = TRUE
            /\ pc' = "finally"
            /\ UNCHANGED <<fut, awaiting>>
       ELSE /\ fut' = [i \in 1..Len(lines) |->
                          IF i \in InBatch(batch) THEN "queued" ELSE fut[i]]
            /\ awaiting' = 1
            /\ pc' = "await"
            /\ UNCHANGED exception
    /\ UNCHANGED <<argv, max_workers, tm1_services, lines, line_sets, batch,
                   joined, log, calls>>

\* the for loop of line 143 is exhausted: work_through_tasks returns
ReturnFromWork ==
    /\ pc = "loop"
    /\ batch > Len(line_sets)
    /\ pc' = "finally"
    /\ UNCHANGED <<argv, max_workers, tm1_services, lines, line_sets, batch,
                   awaiting, exception, joined, fut, log, calls>>

(***************************************************************************)
(* The pool: at most int(max_workers) threads, each taking the oldest      *)
(* queued work item.  A thread is busy while its line is inside the remote *)
(* call; the rest of execute_line takes no time in the model.              *)
(***************************************************************************)
Running == {i \in 1..Len(lines) : fut[i] = "calling"}

\* a pool that starts a thread for every work item
FreeWorkerAlways == TRUE

FreeWorker == Cardinality(Running) < Int(max_workers)

\* a pool whose workers take any queued work item, not the oldest
PickedAnyOrder(i) ==
    /\ fut[i] = "queued"
    /\ FreeWorker

Picked(i) ==
    /\ fut[i] = "queued"
    /\ \A j \in 1..Len(lines) : fut[j] = "queued" => i <= j
    /\ FreeWorker

\* the lookup without the membership test
ResolvesAlways(instance_name) == TRUE

Resolves(instance_name) == instance_name \in DOMAIN tm1_services

\* no test for a blank line: it goes to extract_info_from_line, which raises
ExecuteLineBlankParsed(i) ==
    /\ Picked(i)
    /\ Len(Strip(lines[i])) = 0
    /\ fut' = [fut EXCEPT ![i] = "raised"]
    /\ UNCHANGED <<pc, argv, max_workers, tm1_services, lines, line_sets, batch,
                   awaiting, exception, joined, log, calls>>

\* execute_line, lines 94-95: a blank line returns at once
ExecuteLineBlank(i) ==
    /\ Picked(i)
    /\ Len(Strip(lines[i])) = 0
    /\ fut' = [fut EXCEPT ![i] = "blank"]
    /\ UNCHANGED <<pc, argv, max_workers, tm1_services, lines, line_sets, batch,
                   awaiting, exception, joined, log, calls>>

\* execute_line, line 96: extract_info_from_line raises; nothing catches it
\* in the worker, the future holds the exception
ExecuteLineRaise(i) ==
    /\ Picked(i)
    /\ Len(Strip(lines[i])) # 0
    /\ ParsedLine[lines[i]].raised
    /\ fut' = [fut EXCEPT ![i] = "raised"]
    /\ UNCHANGED <<pc, argv, max_workers, tm1_services, lines, line_sets, batch,
                   awaiting, exception, joined, log, calls>>

\* a missing instance is entered into the dict when a line asks for it
ExecuteLineSkipRegisters(i) ==
    /\ Picked(i)
    /\ Len(Strip(lines[i])) # 0
    /\ LET info == ParsedLine[lines[i]]
       IN  /\ ~info.raised
           /\ ~Resolves(info.instance_name)
           /\ tm1_services' = DictSet(tm1_services, info.instance_name, "connected")
    /\ log' = [log EXCEPT ![i] = Append(@, "error")]
    /\ fut' = [fut EXCEPT ![i] = "skipped"]
    /\ UNCHANGED <<pc, argv, max_workers, lines, line_sets, batch,
                   awaiting, exception, joined, calls>>

\* execute_line, lines 97-102: the instance is not in the dict
ExecuteLineSkip(i) ==
    /\ Picked(i)
    /\ Len(Strip(lines[i])) # 0
    /\ LET info == ParsedLine[lines[i]]
       IN  /\ ~info.raised
           /\ ~Resolves(info.instance_name)
    /\ log' = [log EXCEPT ![i] = Append(@, "error")]
    /\ fut' = [fut EXCEPT ![i] = "skipped"]
    /\ UNCHANGED <<pc, argv, max_workers, tm1_services, lines, line_sets, batch,
                   awaiting, exception, joined, calls>>

\* execute_line, lines 103-111: log the start, enter the remote call
ExecuteLineCall(i) ==
    /\ Picked(i)
    /\ Len(Strip(lines[i])) # 0
    /\ LET info == ParsedLine[lines[i]]
       IN  /\ ~info.raised
           /\ Resolves(info.instance_name)
           /\ calls' = [calls EXCEPT ![i] =
                           Append(@, [instance |-> info.instance_name,
                                      process_name |-> info.process_name,
                                      parameters |-> info.parameters])]
    /\ log' = [log EXCEPT ![i] = Append(@, "info")]
    /\ fut' = [fut EXCEPT ![i] = "calling"]
    /\ UNCHANGED <<pc, argv, max_workers, tm1_services, lines, line_sets, batch,
                   awaiting, exception, joined>>

\* execute_line, lines 111-119: the remote call returns
ExecuteLineSuccess(i) ==
    /\ fut[i] = "calling"
    /\ log' = [log EXCEPT ![i] = Append(@, "info")]
    /\ fut' = [fut EXCEPT ![i] = "succeeded"]
    /\ UNCHANGED <<pc, argv, max_workers, tm1_services, lines, line_sets, batch,
                   awaiting, exception, joined, calls>>

\* the remote call raises and no except clause catches it
ExecuteLineFailureEscapes(i) ==
    /\ fut[i] = "calling"
    /\ fut' = [fut EXCEPT ![i] = "raised"]
    /\ UNCHANGED <<pc, argv, max_workers, tm1_services, lines, line_sets, batch,
                   awaiting, exception, joined, log, calls>>

\* the remote call raises and the except clause swallows it without a record
ExecuteLineFailureSilent(i) ==
    /\ fut[i] = "calling"
    /\ fut' = [fut EXCEPT ![i] = "failed"]
    /\ UNCHANGED <<pc, argv, max_workers, tm1_services, lines, line_sets, batch,
                   awaiting, exception, joined, log, calls>>

\* the remote call raises and the line is put back on the queue for a retry
ExecuteLineFailureRetries(i) ==
    /\ fut[i] = "calling"
    /\ log' = [log EXCEPT ![i] = Append(@, "error")]
    /\ fut' = [fut EXCEPT ![i] = "queued"]
    /\ UNCHANGED <<pc, argv, max_workers, tm1_services, lines, line_sets, batch,
                   awaiting, exception, joined, calls>>

\* execute_line, lines 120-125: the remote call raises, the except clause logs
ExecuteLineFailure(i) ==
    /\ fut[i] = "calling"
    /\ log' = [log EXCEPT ![i] = Append(@, "error")]
    /\ fut' = [fut EXCEPT ![i] = "failed"]
    /\ UNCHANGED <<pc, argv, max_workers, tm1_services, lines, line_sets, batch,
                   awaiting, exception, joined, calls>>

(***************************************************************************)
(* Lines 148-149: await the futures of the block in order.  Awaiting a     *)
(* future that holds an exception raises it in work_through_tasks.         *)
(***************************************************************************)
\* the block is left without awaiting its futures or shutting the pool down
AwaitNothing ==
    /\ pc = "await"
    /\ batch' = batch + 1
    /\ pc' = "loop"
    /\ UNCHANGED <<argv, max_workers, tm1_services, lines, line_sets, awaiting,
                   exception, joined, fut, log, calls>>

AwaitFuture ==
    /\ pc = "await"
    /\ LET i == line_sets[batch][awaiting]
       IN  /\ fut[i] \in Finished
           /\ IF fut[i] = "raised"
              THEN /\ exception' = TRUE
                   /\ pc' = "exit"
                   /\ UNCHANGED awaiting
              ELSE /\ awaiting' = awaiting + 1
                   /\ pc' = IF awaiting = Len(line_sets[batch]) THEN "exit" ELSE "await"
                   /\ UNCHANGED exception
    /\ UNCHANGED <<argv, max_workers, tm1_services, lines, line_sets, batch,
                   joined, fut, log, calls>>

(***************************************************************************)
(* Line 144, leaving the with block: executor.shutdown(wait=True) returns  *)
(* when every submitted work item has run.                                 *)
(***************************************************************************)
\* executor.shutdown(wait=False)
ShutdownNoWait == TRUE

ShutdownWait == \A i \in InBatch(batch) : fut[i] \in Finished

\* executor.shutdown(wait=True, cancel_futures=True): the running lines are
\* waited for, the queued ones are cancelled
ExitBatchCancelling ==
    /\ pc = "exit"
    /\ \A i \in InBatch(batch) : fut[i] # "calling"
    /\ fut' = [i \in 1..Len(lines) |-> IF fut[i] = "queued" THEN "cancelled" ELSE fut[i]]
    /\ joined' = joined \cup {batch}
    /\ IF exception
       THEN /\ pc' = "finally"
            /\ UNCHANGED batch
       ELSE /\ pc' = "loop"
            /\ batch' = batch + 1
    /\ UNCHANGED <<argv, max_workers, tm1_services, lines, line_sets, awaiting,
                   exception, log, calls>>

ExitBatch ==
    /\ pc = "exit"
    /\ ShutdownWait
    /\ joined' = joined \cup {batch}
    /\ IF exception
       THEN /\ pc' = "finally"
            /\ UNCHANGED batch
       ELSE /\ pc' = "loop"
            /\ batch' = batch + 1
    /\ UNCHANGED <<argv, max_workers, tm1_services, lines, line_sets, awaiting,
                   exception, fut, log, calls>>

(***************************************************************************)
(* __main__, lines 202-208: the finally clause logs out of every instance; *)
(* then the program ends, with the exception if there is one.              *)
(***************************************************************************)
\* logout after the call instead of in a finally clause: an exception skips it
LogoutSkippedOnError ==
    /\ pc = "finally"
    /\ tm1_services' = IF exception THEN tm1_services
                       ELSE [name \in DOMAIN tm1_services |-> "logged_out"]
    /\ pc' = IF exception THEN "crashed" ELSE "done"
    /\ UNCHANGED <<argv, max_workers, lines, line_sets, batch, awaiting,
                   exception, joined, fut, log, calls>>

Logout ==
    /\ pc = "finally"
    /\ tm1_services' = [name \in DOMAIN tm1_services |-> "logged_out"]
    /\ pc' = IF exception THEN "crashed" ELSE "done"
    /\ UNCHANGED <<argv, max_workers, lines, line_sets, batch, awaiting,
                   exception, joined, fut, log, calls>>

Next ==
    \/ TranslateCmdArguments
    \/ SetupTm1Services
    \/ ReadAndSplit
    \/ EnterBatch
    \/ ReturnFromWork
    \/ \E i \in 1..Len(lines) : ExecuteLineBlank(i)
    \/ \E i \in 1..Len(lines) : ExecuteLineRaise(i)
    \/ \E i \in 1..Len(lines) : ExecuteLineSkip(i)
    \/ \E i \in 1..Len(lines) : ExecuteLineCall(i)
    \/ \E i \in 1..Len(lines) : ExecuteLineSuccess(i)
    \/ \E i \in 1..Len(lines) : ExecuteLineFailure(i)
    \/ AwaitFuture
    \/ ExitBatch
    \/ Logout

(***************************************************************************)
(* The parser on its own: a line of at most MaxTokens key=value tokens,    *)
(* separated by single blanks, is handed to extract_info_from_line as      *)
(* execute_line does at line 96, and what it returns is recorded.          *)
(***************************************************************************)
MaxTokens == 4

\* instance=A
TokInstanceLower == <<"i", "n", "s", "t", "a", "n", "c", "e", "=", "A">>
\* INSTANCE="B"
TokInstanceUpper == <<"I", "N", "S", "T", "A", "N", "C", "E", "=", "\"", "B", "\"">>
\* process=P
TokProcessLower == <<"p", "r", "o", "c", "e", "s", "s", "=", "P">>
\* ProCess="Q"
TokProcessMixed == <<"P", "r", "o", "C", "e", "s", "s", "=", "\"", "Q", "\"">>
\* pX=1
TokParamUpper == <<"p", "X", "=", "1">>
\* px=2
TokParamLower == <<"p", "x", "=", "2">>

TokenTexts == {TokInstanceLower, TokInstanceUpper, TokProcessLower, TokProcessMixed, TokParamUpper, TokParamLower}

RECURSIVE Render(_)
Render(ts) ==
    IF ts = <<>> THEN <<"\n">>
    ELSE IF Len(ts) = 1 THEN Head(ts) \o <<"\n">>
    ELSE Head(ts) \o <<" ">> \o Render(Tail(ts))

TokenLines == {Render(ts) : ts \in UNION {[1..k -> TokenTexts] : k \in 1..MaxTokens}}

ParserInit ==
    /\ pc = "parse"
    /\ argv = <<>>
    /\ max_workers = <<>>
    /\ tm1_services = EmptyDict
    /\ lines \in {<<line>> : line \in TokenLines}
    /\ line_sets = <<>>
    /\ batch = 0
    /\ awaiting = 0
    /\ exception = FALSE
    /\ joined = {}
    /\ fut = <<"queued">>
    /\ log = <<<<>>>>
    /\ calls = <<<<>>>>

ParseLine ==
    /\ pc = "parse"
    /\ LET info == extract_info_from_line(lines[1])
       IN  IF info.raised
           THEN /\ fut' = <<"raised">>
                /\ UNCHANGED calls
           ELSE /\ fut' = <<"calling">>
                /\ calls' = <<<<[instance |-> info.instance_name,
                                 process_name |-> info.process_name,
                                 parameters |-> info.parameters]>>>>
    /\ pc' = "parsed"
    /\ UNCHANGED <<argv, max_workers, tm1_services, lines, line_sets, batch,
                   awaiting, exception, joined, log>>

ParserNext == ParseLine

ParserSpec == ParserInit /\ [][ParserNext]_vars

Spec == Init /\ [][Next]_vars

(***************************************************************************)
(* Properties.                                                             *)
(***************************************************************************)
Positions == 1..Len(lines)

Batches == 1..Len(line_sets)

Outcome == {"succeeded", "failed", "skipped"}

InFlight(i) == fut[i] \in {"queued", "calling"}

PositiveWorkers == Int(max_workers) >= 1

RunEnded == pc \in {"done", "crashed"}

RECURSIVE Flatten(_)
Flatten(ss) == IF ss = <<>> THEN <<>> ELSE Head(ss) \o Flatten(Tail(ss))

\* C1: no line of a later block is submitted before every line of an
\* earlier block has ended (every task of it as Succeeded, Failed or
\* Skipped), and lines of two blocks are never in flight together.
C1_BarrierBetweenBatches ==
    \A b1 \in Batches : \A b2 \in Batches :
        b1 < b2 =>
            \A i \in InBatch(b1) : \A j \in InBatch(b2) :
                /\ fut[j] # "pending" =>
                      /\ fut[i] \in Finished
                      /\ lines[i] \notin BlankTexts => fut[i] \in Outcome
                /\ ~(InFlight(i) /\ InFlight(j))

C1_Witness ==
    \E b1 \in Batches : \E b2 \in Batches :
        /\ b1 < b2
        /\ \E i \in InBatch(b1) : fut[i] \in Outcome
        /\ \E j \in InBatch(b2) : fut[j] = "calling"

\* C2: after a run with a positive worker count has ended, every
\* well-formed task of the file has an outcome, malformed lines elsewhere
\* in the file notwithstanding.
C2_MalformedLineDropsOnlyItself ==
    (RunEnded /\ PositiveWorkers) =>
        \A i \in Positions : lines[i] \in TaskTexts => fut[i] \in Outcome

\* C3: the number of lines inside the remote call never exceeds the
\* configured worker count.
C3_BoundedConcurrency == Cardinality(Running) <= Int(max_workers)

C3_Witness ==
    /\ PositiveWorkers
    /\ Cardinality(Running) = Int(max_workers)
    /\ \E i \in Positions : fut[i] = "queued"

\* C4: once the executor of a block has shut down, every line of the block
\* has run, and every task of it has an outcome, also when the block holds
\* more lines than there are workers.
C4_FullJoin ==
    \A b \in joined : \A i \in InBatch(b) :
        /\ fut[i] \in Finished
        /\ lines[i] \in TaskTexts => fut[i] \in Outcome

C4_Witness ==
    \E b \in joined :
        /\ PositiveWorkers
        /\ Int(max_workers) < Len(line_sets[b])
        /\ \A i \in InBatch(b) : lines[i] \in TaskTexts /\ Len(calls[i]) = 1

\* C5: a remote call that raises never leaves a well-formed task with an
\* escaped exception, and a run over a file without malformed lines ends
\* normally with an outcome for every task, failed tasks or not.
C5_RemoteFailureIsolated ==
    /\ \A i \in Positions : lines[i] \in TaskTexts => fut[i] # "raised"
    /\ (RunEnded /\ PositiveWorkers
          /\ \A i \in Positions : lines[i] \notin MalformedTexts) =>
          /\ pc = "done"
          /\ \A i \in Positions : lines[i] \in TaskTexts => fut[i] \in Outcome

C5_Witness ==
    /\ pc = "done"
    /\ \E b1 \in Batches : \E b2 \in Batches :
          /\ b1 < b2
          /\ \E i \in InBatch(b1) : fut[i] = "failed"
          /\ \E j \in InBatch(b2) : fut[j] = "succeeded"

\* C6: a task whose instance is not in tm1_services never issues a remote
\* call, is never inside one, and ends only as Skipped; every remote call
\* goes to the instance its line names, which is in tm1_services.
C6_AbsentInstanceSkipped ==
    \A i \in Positions :
        /\ (lines[i] \in TaskTexts /\ TargetOf(lines[i]) \notin DOMAIN tm1_services) =>
              /\ calls[i] = <<>>
              /\ fut[i] \in {"pending", "queued", "skipped"}
        /\ \A k \in 1..Len(calls[i]) :
              /\ calls[i][k].instance = TargetOf(lines[i])
              /\ calls[i][k].instance \in DOMAIN tm1_services

C6_Witness ==
    \E i \in Positions : \E j \in Positions :
        /\ fut[i] = "skipped"
        /\ TargetOf(lines[i]) \notin DOMAIN tm1_services
        /\ fut[j] = "calling"

C9_FileOrder ==
    LET flat == Flatten(line_sets)
    IN  /\ \A k \in 1..(Len(flat) - 1) : flat[k] < flat[k + 1]
        /\ {flat[k] : k \in 1..Len(flat)} =
              {i \in Positions : lines[i] \notin BarrierTexts}
        /\ \A i \in Positions : \A j \in Positions :
              (i < j /\ lines[i] \notin BarrierTexts /\ lines[j] \notin BarrierTexts) =>
                  ((\E b \in Batches : i \in InBatch(b) /\ j \in InBatch(b))
                     <=> (\A k \in i..j : lines[k] \notin BarrierTexts))
        /\ \A i \in Positions :
              lines[i] \in BarrierTexts =>
                  fut[i] = "pending" /\ calls[i] = <<>> /\ log[i] = <<>>

C9_Witness ==
    /\ pc = "done"
    /\ Len(line_sets) = 2
    /\ \E i \in Positions : lines[i] = LineWaitMixed
    /\ \A i \in Positions : lines[i] \notin BarrierTexts => fut[i] \in Outcome

Driver ==
    \/ TranslateCmdArguments
    \/ SetupTm1Services
    \/ ReadAndSplit
    \/ EnterBatch
    \/ ReturnFromWork
    \/ AwaitFuture
    \/ ExitBatch
    \/ Logout

Worker(i) ==
    /\ i \in DOMAIN fut
    /\ \/ ExecuteLineBlank(i)
       \/ ExecuteLineRaise(i)
       \/ ExecuteLineSkip(i)
       \/ ExecuteLineCall(i)
       \/ ExecuteLineSuccess(i)
       \/ ExecuteLineFailure(i)

FairSpec == Spec /\ WF_vars(Driver \/ \E i \in DOMAIN fut : Worker(i))

\* C12: from the moment a file without malformed lines has been read with
\* a positive worker count, the program eventually ends normally, every
\* block joined and every task with an outcome, whatever the outcomes are.
C12_CompletesNormally ==
    (pc = "loop" /\ PositiveWorkers
       /\ \A i \in Positions : lines[i] \notin MalformedTexts)
    ~> (/\ pc = "done"
        /\ joined = Batches
        /\ \A i \in Positions : lines[i] \in TaskTexts => fut[i] \in Outcome)

C12_Witness ==
    /\ pc = "done"
    /\ Len(line_sets) = 2
    /\ joined = Batches
    /\ \A i \in Positions :
          lines[i] \notin BarrierTexts => (lines[i] \in TaskTexts /\ fut[i] = "failed")

\* C13: with a command line that has fewer than two arguments, names a
\* file that does not exist or gives a worker count that is not a number,
\* the program never leaves argument validation: tm1_services is never
\* built, no file is read and no line is submitted or run.
InvalidCommandLine ==
    \/ Len(argv) < 3
    \/ argv[2] = "missing.txt"
    \/ argv[3] = <<"x">>

C13_ValidationBeforeSetup ==
    InvalidCommandLine =>
        /\ pc \in {"args", "fatal"}
        /\ DOMAIN tm1_services = {}
        /\ lines = <<>>
        /\ fut = <<>>
        /\ calls = <<>>

C13_Witness ==
    /\ pc = "fatal"
    /\ Len(argv) = 3
    /\ argv[2] = "missing.txt"

\* C14: every step moves a line only along pending -> queued -> calling ->
\* {succeeded, failed}, or from queued straight to skipped, blank or raised;
\* a well-formed task never ends blank or raised, no line issues more than
\* one remote call, and a line that has ended changes no more.
Allowed(a, b) ==
    \/ a = b
    \/ a = "pending" /\ b = "queued"
    \/ a = "queued" /\ b \in {"calling", "skipped", "blank", "raised"}
    \/ a = "calling" /\ b \in {"succeeded", "failed"}

C14_TaskStateMachine ==
    [][\A i \in (DOMAIN fut) \cap (DOMAIN fut') :
          /\ Allowed(fut[i], fut'[i])
          /\ lines'[i] \in TaskTexts => fut'[i] \notin {"blank", "raised"}
          /\ Len(calls'[i]) <= 1
          /\ fut[i] \in Finished => (calls'[i] = calls[i] /\ log'[i] = log[i])]_vars

C14_Witness ==
    /\ pc = "done"
    /\ \E i \in Positions : fut[i] = "failed" /\ Len(calls[i]) = 1
    /\ \E i \in Positions : fut[i] = "succeeded" /\ Len(calls[i]) = 1
    /\ \E i \in Positions : fut[i] = "skipped" /\ Len(calls[i]) = 0

\* C15: from the return of setup_tm1_services to the start of logout no
\* step changes tm1_services, neither its keys nor its sessions.
C15_RegistryReadOnly ==
    [][(pc \in {"work", "loop", "await", "exit"}) => (tm1_services' = tm1_services)]_vars

C15_Witness ==
    /\ pc = "exit"
    /\ DOMAIN tm1_services # {}
    /\ \A name \in DOMAIN tm1_services : tm1_services[name] = "connected"
    /\ \E i \in Positions : fut[i] = "failed"
    /\ \E i \in Positions : fut[i] = "skipped"

\* What each token of a parser line is, read off its text: whether its key
\* is instance, process or a parameter, the key as spelled, and the value.
TokenInfo(t) ==
    CASE t = TokInstanceLower -> [kind |-> "instance", key |-> <<"i", "n", "s", "t", "a", "n", "c", "e">>, value |-> <<"A">>]
      [] t = TokInstanceUpper -> [kind |-> "instance", key |-> <<"I", "N", "S", "T", "A", "N", "C", "E">>, value |-> <<"B">>]
      [] t = TokProcessLower -> [kind |-> "process", key |-> <<"p", "r", "o", "c", "e", "s", "s">>, value |-> <<"P">>]
      [] t = TokProcessMixed -> [kind |-> "process", key |-> <<"P", "r", "o", "C", "e", "s", "s">>, value |-> <<"Q">>]
      [] t = TokParamUpper -> [kind |-> "param", key |-> <<"p", "X">>, value |-> <<"1">>]
      [] t = TokParamLower -> [kind |-> "param", key |-> <<"p", "x">>, value |-> <<"2">>]

TokensOf(line) == SplitOn(SubSeq(line, 1, Len(line) - 1), " ")

LastOfKind(toks, kind) ==
    LET at == {k \in 1..Len(toks) : TokenInfo(toks[k]).kind = kind}
    IN  TokenInfo(toks[CHOOSE k \in at : \A m \in at : m <= k]).value

LastWithKey(toks, key) ==
    LET at == {k \in 1..Len(toks) : TokenInfo(toks[k]).key = key}
    IN  TokenInfo(toks[CHOOSE k \in at : \A m \in at : m <= k]).value

HasKind(toks, kind) == \E k \in 1..Len(toks) : TokenInfo(toks[k]).kind = kind

ParameterKeys(toks) ==
    {TokenInfo(toks[k]).key : k \in {m \in 1..Len(toks) : TokenInfo(toks[m]).kind = "param"}}

\* C16: for a line of key=value tokens, the parser raises exactly when no
\* token names the instance or none names the process, whatever the letter
\* case of those keys; otherwise it returns the value of the last instance
\* token and of the last process token, and a parameter map whose keys are
\* the other keys exactly as spelled (pX and px stay apart), each with its
\* value, and none of which is instance or process in any letter case.
C16_KeyCase ==
    pc = "parsed" =>
        LET toks == TokensOf(lines[1])
        IN  IF ~(HasKind(toks, "instance") /\ HasKind(toks, "process"))
            THEN fut = <<"raised">> /\ calls = <<<<>>>>
            ELSE /\ fut = <<"calling">>
                 /\ Len(calls[1]) = 1
                 /\ calls[1][1].instance = LastOfKind(toks, "instance")
                 /\ calls[1][1].process_name = LastOfKind(toks, "process")
                 /\ DOMAIN calls[1][1].parameters = ParameterKeys(toks)
                 /\ \A key \in ParameterKeys(toks) :
                       calls[1][1].parameters[key] = LastWithKey(toks, key)
                 /\ \A key \in DOMAIN calls[1][1].parameters :
                       Lower(key) \notin {KeyInstance, KeyProcess}

C16_Witness ==
    /\ pc = "parsed"
    /\ lines[1] = Render(<<TokParamUpper, TokInstanceUpper, TokParamLower, TokProcessMixed>>)
    /\ Len(calls[1]) = 1
    /\ DOMAIN calls[1][1].parameters = {<<"p", "X">>, <<"p", "x">>}

\* C17: a blank line issues no remote call, writes no log record and never
\* ends with an exception; and where the blank lines are the only lines of
\* a file that are not well-formed tasks or barriers, the run ends normally
\* with every blank line run and every task with an outcome.
C17_BlankLineHarmless ==
    /\ \A i \in Positions :
          lines[i] \in BlankTexts =>
              /\ calls[i] = <<>>
              /\ log[i] = <<>>
              /\ fut[i] \in {"pending", "queued", "blank"}
    /\ (RunEnded /\ PositiveWorkers
          /\ \A i \in Positions : lines[i] \in BlankTexts \cup TaskTexts \cup BarrierTexts) =>
          /\ ~exception
          /\ \A i \in Positions : lines[i] \in BlankTexts => fut[i] = "blank"
          /\ \A i \in Positions : lines[i] \in TaskTexts => fut[i] \in Outcome

C17_Witness ==
    /\ pc = "done"
    /\ \E b \in Batches :
          /\ \E i \in InBatch(b) : lines[i] \in BlankTexts /\ fut[i] = "blank"
          /\ \E j \in InBatch(b) : lines[j] \in TaskTexts /\ fut[j] \in Outcome
    /\ Len(line_sets) = 1
    /\ Len(lines) = 3
    /\ lines[1] \in BlankTexts

\* C18: when the exception of a line has left the with block of its block
\* and ended the loop over the blocks, every line of that block has run and
\* every task of it has an outcome; while the exception is still inside the
\* with block, no line of the block has been taken off the queue unrun.
C18_SiblingsRunBeforeErrorLeaves ==
    (exception /\ PositiveWorkers) =>
        /\ \A i \in InBatch(batch) : fut[i] \in {"queued", "calling"} \cup Finished
        /\ pc \in {"finally", "crashed"} =>
              \A i \in InBatch(batch) :
                  /\ fut[i] \in Finished
                  /\ lines[i] \in TaskTexts => fut[i] \in Outcome

C18_Witness ==
    /\ pc = "finally"
    /\ exception
    /\ Int(max_workers) = 1
    /\ Len(line_sets[batch]) = 3
    /\ fut[line_sets[batch][1]] = "raised"
    /\ \A k \in 2..3 :
          /\ lines[line_sets[batch][k]] \in TaskTexts
          /\ fut[line_sets[batch][k]] \in Outcome

\* C19: within a block a line is taken by a worker only after every
\* earlier line of the block has been taken; with one worker a line is
\* taken only after every earlier line of the block has ended.
Started(i) == fut[i] \notin {"pending", "queued"}

ZeroWorkers == Len(argv) = 3 /\ argv[2] = "tasks.txt" /\ argv[3] = <<"0">>

C20_ZeroWorkers ==
    ZeroWorkers =>
        /\ pc # "fatal"
        /\ \A i \in Positions : fut[i] = "pending" /\ calls[i] = <<>> /\ log[i] = <<>>
        /\ joined = {}
        /\ exception => (Len(line_sets) >= 1 /\ batch = 1)
        /\ RunEnded =>
              /\ pc = "crashed" <=> Len(line_sets) >= 1
              /\ \A name \in DOMAIN tm1_services : tm1_services[name] = "logged_out"

C20_Witness ==
    /\ ZeroWorkers
    /\ pc = "crashed"
    /\ DOMAIN tm1_services = ConfigSections
    /\ \A name \in DOMAIN tm1_services : tm1_services[name] = "logged_out"
    /\ \E i \in Positions : lines[i] \in TaskTexts

====
